---- MODULE Spec2Model ----
(***************************************************************************)
(* The durable event outbox and cloud synchronisation engine of            *)
(* src/src/backend/cloudSync.js (class CloudSyncManager), driven by the    *)
(* cron job of src/src/backend/server.js.                                  *)
(*                                                                         *)
(* Node.js runs one callback at a time, so every piece of code between two *)
(* awaits is atomic.  A step of the model is one such piece: the database  *)
(* statement or transport call being awaited completes and the code runs   *)
(* on to the next await (or to its return).                                *)
(*                                                                         *)
(* Time.  One unit of model time is 2000 ms.  `now` is the reading of the  *)
(* clock (Date.now(), and CURRENT_TIMESTAMP inside SQLite); the clock      *)
(* never goes back.  The only place where the program compares the clock   *)
(* with a reading it stored is performScheduledSync (Date.now() -          *)
(* lastSyncTime), so readings are numbered as that comparison sees them:   *)
(* when time passes and lastSyncTime is older than the current reading,    *)
(* the new reading keeps the number of the current one (see Advance).      *)
(***************************************************************************)
EXTENDS Integers, Sequences, FiniteSets, TLC

\* ---------------------------------------------------------------- bounds
\* Rows the sync_queue table may hold (enqueue calls of a run).
MaxRecords == 3
\* performSync invocations that may be in flight together (the model does
\* not assume the mutual exclusion it checks).
MaxTasks == 2

\* Statements of a run that the store answers with an error (SpecFault).
MaxFaults == 2
\* Process stops of a run (SpecCrash).
MaxCrashes == 1
\* Rows already in sync_queue when the process starts (SpecBacklog).
Backlog == 5
\* Rows a run with store errors receives through syncData
\* (SpecEnqueueFault).
MaxEnqueued == 2
\* CLOUD_CONFIG.batchSize (l. 11), the LIMIT of a selection.  100 in the
\* source; scaled down so that a table of a few rows fills more than one
\* batch.
batchSize == 2

\* ------------------------------------------------- CLOUD_CONFIG (l. 7-14)
retryAttempts == 3
\* syncInterval: 2000 ms = 1 unit.
syncInterval == 1
\* setTimeout(..., 30000) in sendToCloud's catch: 30000 ms = 15 units.
cooldown == 15

VARIABLES
    queue,          \* table sync_queue: row i has id i (AUTOINCREMENT, no DELETE)
    logs,           \* table sync_logs, in insertion order
    isOnline,       \* this.isOnline
    syncInProgress, \* this.syncInProgress
    lastSyncTime,   \* this.lastSyncTime
    timers,         \* pending setTimeout callbacks: time left of each
    now,            \* the clock reading
    tasks,          \* performSync invocations: position and locals
    sent,           \* history: the calls of sendToCloud that have returned, in
                    \* order: the batch (ids) and whether it was accepted
    lastReturn,     \* what performSync returned in the step just taken
                    \* ("none" if no call of it returned in that step)
    syncDataReturn, \* what syncData returned in the step just taken: "queued"
                    \* for { success: true, queued: true }, "error" for
                    \* { success: false }, "none" if no call of it returned
    faults          \* history: store errors and process stops so far

vars == <<queue, logs, isOnline, syncInProgress, lastSyncTime, timers, now,
          tasks, sent, lastReturn, syncDataReturn, faults>>

Tasks == 1..MaxTasks

\* pc, the caller, the locals batchId and pendingRecords (ids), result.error
\* (why the send failed), and, as history, the rows that were eligible when
\* pendingRecords was read.
IdleTask == [pc |-> "idle", caller |-> "none", batchId |-> 0,
             pendingRecords |-> <<>>, error |-> "none", eligible |-> {}]

\* Why a send failed: error.request (no answer: network, timeout),
\* error.response (the endpoint answered with an HTTP error).
ErrorKinds == {"network", "http"}

Init ==
    /\ queue = <<>>
    /\ logs = <<>>
    /\ isOnline = TRUE
    /\ syncInProgress = FALSE
    /\ lastSyncTime = 0
    /\ timers = <<>>
    /\ now = 1
    /\ tasks = [t \in Tasks |-> IdleTask]
    /\ sent = <<>>
    /\ lastReturn = "none"
    /\ syncDataReturn = "none"
    /\ faults = 0

\* ------------------------------------------------------------- the store

\* INSERT INTO sync_queue: sync_status DEFAULT 'pending', retry_count
\* DEFAULT 0, created_at DEFAULT CURRENT_TIMESTAMP.
NewRecord == [sync_status |-> "pending", retry_count |-> 0, created_at |-> now]

\* Mutant of addToSyncQueue: while a sync is running the row is kept in
\* memory (this.pendingData) instead of the table.
addToSyncQueueBuffered ==
    queue' = IF syncInProgress THEN queue ELSE Append(queue, NewRecord)

\* Mutant of addToSyncQueue: the INSERT also puts the failed rows back to
\* 'pending'.
addToSyncQueueResetting ==
    queue' = Append([i \in 1..Len(queue) |->
                        IF queue[i].sync_status = "failed"
                        THEN [queue[i] EXCEPT !.sync_status = "pending"]
                        ELSE queue[i]],
                    NewRecord)

addToSyncQueue == queue' = Append(queue, NewRecord)

\* Mutant of Eligible: the test of sync_status is missing.
EligibleAnyStatus ==
    {i \in 1..Len(queue) : queue[i].retry_count < retryAttempts}

\* Mutant of Eligible: failed rows with retries left are selected again.
EligibleWithRetries ==
    {i \in 1..Len(queue) : /\ queue[i].sync_status # "synced"
                           /\ queue[i].retry_count < retryAttempts}

\* WHERE sync_status = 'pending' AND retry_count < ?   (? = retryAttempts)
Eligible ==
    {i \in 1..Len(queue) : /\ queue[i].sync_status = "pending"
                           /\ queue[i].retry_count < retryAttempts}

\* Mutant of OrderedBefore: ORDER BY created_at DESC.
OrderedBeforeDesc(i, j) ==
    \/ queue[i].created_at > queue[j].created_at
    \/ queue[i].created_at = queue[j].created_at /\ i < j

\* ORDER BY created_at ASC.  Rows of equal created_at come in the order of
\* the table scan, which is rowid order: for a query with a LIMIT SQLite
\* sorts through a b-tree keyed by (created_at, arrival number).
OrderedBefore(i, j) ==
    \/ queue[i].created_at < queue[j].created_at
    \/ queue[i].created_at = queue[j].created_at /\ i < j

Min(a, b) == IF a <= b THEN a ELSE b

\* Mutant of getPendingRecords: the LIMIT is missing.
getPendingRecordsNoLimit(limit) ==
    LET rank(i) == Cardinality({j \in Eligible : OrderedBefore(j, i)}) + 1
    IN  [k \in 1..Cardinality(Eligible) |->
            CHOOSE i \in Eligible : rank(i) = k]

\* getPendingRecords(limit): the first `limit` eligible rows in that order
\* (the ids of the rows; the model keeps no payload).
getPendingRecords(limit) ==
    LET rank(i) == Cardinality({j \in Eligible : OrderedBefore(j, i)}) + 1
    IN  [k \in 1..Min(limit, Cardinality(Eligible)) |->
            CHOOSE i \in Eligible : rank(i) = k]

Ids(batch) == {batch[k] : k \in 1..Len(batch)}

\* Mutant of markRecordsSynced: only the first id reaches the statement.
markRecordsSyncedFirstOnly(recordIds) ==
    queue' = [i \in 1..Len(queue) |->
                IF i \in recordIds /\ \A j \in recordIds : i <= j
                THEN [queue[i] EXCEPT !.sync_status = "synced"]
                ELSE queue[i]]

\* Mutant of markRecordsSynced: the UPDATE has WHERE sync_status = 'pending'
\* in place of the list of ids.
markRecordsSyncedAllPending(recordIds) ==
    queue' = [i \in 1..Len(queue) |->
                IF queue[i].sync_status = "pending"
                THEN [queue[i] EXCEPT !.sync_status = "synced"]
                ELSE queue[i]]

\* UPDATE sync_queue SET sync_status = 'synced' WHERE id IN (...)
markRecordsSynced(recordIds) ==
    queue' = [i \in 1..Len(queue) |->
                IF i \in recordIds
                THEN [queue[i] EXCEPT !.sync_status = "synced"]
                ELSE queue[i]]

\* Mutant of handleSyncFailure: retry_count grows by the size of the batch.
handleSyncFailureByBatchCount(recordIds) ==
    queue' = [i \in 1..Len(queue) |->
                IF i \in recordIds
                THEN [queue[i] EXCEPT !.sync_status = "failed",
                                      !.retry_count = @ + Cardinality(recordIds)]
                ELSE queue[i]]

\* UPDATE sync_queue SET retry_count = retry_count + 1,
\*   sync_status = 'failed' WHERE id IN (...)
handleSyncFailure(recordIds) ==
    queue' = [i \in 1..Len(queue) |->
                IF i \in recordIds
                THEN [queue[i] EXCEPT !.sync_status = "failed",
                                      !.retry_count = @ + 1]
                ELSE queue[i]]

\* INSERT INTO sync_logs (batch_id, records_synced, success, error_message,
\* sync_duration); the text of the message and the duration are not
\* modelled.
logSync(batchId, recordsCount, success) ==
    logs' = Append(logs, [batch_id |-> batchId, records_synced |-> recordsCount,
                          success |-> success])

\* ------------------------------------------------------------ performSync

\* The invocation in slot t settles: if syncData is awaiting it (l. 77),
\* syncData goes on and returns v (l. 80, or l. 83 from its catch).
Returns(t, v) ==
    syncDataReturn' = IF tasks[t].caller = "syncData" THEN v ELSE "none"

\* A free slot for a new invocation (the lowest, to keep one representative).
FreeSlot(t) ==
    /\ tasks[t].pc = "idle"
    /\ \A u \in Tasks : u < t => tasks[u].pc # "idle"

\* Mutant of PerformSync: the guard on syncInProgress is missing.
PerformSyncUnguarded(caller) ==
    /\ \E t \in Tasks :
          /\ FreeSlot(t)
          /\ tasks' = [tasks EXCEPT ![t] =
                         [pc |-> "select", caller |-> caller,
                          batchId |-> now, pendingRecords |-> <<>>,
                          error |-> "none", eligible |-> {}]]
    /\ syncInProgress' = TRUE
    /\ lastReturn' = "none"

\* performSync() up to its first await (l. 105-116): the guard on
\* syncInProgress, the flag, batchId = `batch_${Date.now()}`, and the call
\* of getPendingRecords.
PerformSync(caller) ==
    IF syncInProgress
    THEN /\ lastReturn' = "already"
         /\ UNCHANGED <<syncInProgress, tasks>>
    ELSE /\ \E t \in Tasks :
               /\ FreeSlot(t)
               /\ tasks' = [tasks EXCEPT ![t] =
                              [pc |-> "select", caller |-> caller,
                               batchId |-> now, pendingRecords |-> <<>>,
                               error |-> "none", eligible |-> {}]]
         /\ syncInProgress' = TRUE
         /\ lastReturn' = "none"

\* Mutant of Select: the selected rows are taken out of 'pending' at once.
SelectClaimingRows(t) ==
    /\ tasks[t].pc = "select"
    /\ LET pendingRecords == getPendingRecords(batchSize)
       IN  /\ IF Len(pendingRecords) = 0
              THEN /\ syncInProgress' = FALSE
                   /\ tasks' = [tasks EXCEPT ![t] = IdleTask]
                   /\ lastReturn' = "nodata"
                   /\ Returns(t, "queued")
              ELSE /\ tasks' = [tasks EXCEPT ![t].pc = "send",
                                             ![t].pendingRecords = pendingRecords,
                                             ![t].eligible = Eligible]
                   /\ lastReturn' = "none"
                   /\ syncDataReturn' = "none"
                   /\ UNCHANGED syncInProgress
           /\ queue' = [i \in 1..Len(queue) |->
                          IF i \in Ids(pendingRecords)
                          THEN [queue[i] EXCEPT !.sync_status = "sending"]
                          ELSE queue[i]]
    /\ UNCHANGED <<logs, isOnline, lastSyncTime, timers, now, sent, faults>>

\* Mutant of Select: an empty selection is treated like a finished attempt
\* (a log row is written and lastSyncTime is set).
SelectRecordsNoData(t) ==
    /\ tasks[t].pc = "select"
    /\ LET pendingRecords == getPendingRecords(batchSize)
       IN  IF Len(pendingRecords) = 0
           THEN /\ syncInProgress' = FALSE
                /\ tasks' = [tasks EXCEPT ![t] = IdleTask]
                /\ lastReturn' = "nodata"
                /\ logSync(tasks[t].batchId, 0, TRUE)
                /\ lastSyncTime' = now
           ELSE /\ tasks' = [tasks EXCEPT ![t].pc = "send",
                                          ![t].pendingRecords = pendingRecords,
                                          ![t].eligible = Eligible]
                /\ lastReturn' = "none"
                /\ UNCHANGED <<syncInProgress, logs, lastSyncTime>>
    /\ UNCHANGED <<queue, isOnline, timers, now, sent>>
    /\ IF Len(getPendingRecords(batchSize)) = 0
       THEN Returns(t, "queued")
       ELSE syncDataReturn' = "none"
    /\ UNCHANGED faults

\* getPendingRecords resolves (l. 116-139).  Nothing pending: the flag is
\* cleared and 'No data to sync' returned.  Otherwise sendToCloud is called
\* with the batch.
Select(t) ==
    /\ tasks[t].pc = "select"
    /\ LET pendingRecords == getPendingRecords(batchSize)
       IN  IF Len(pendingRecords) = 0
           THEN /\ syncInProgress' = FALSE
                /\ tasks' = [tasks EXCEPT ![t] = IdleTask]
                /\ lastReturn' = "nodata"
           ELSE /\ tasks' = [tasks EXCEPT ![t].pc = "send",
                                          ![t].pendingRecords = pendingRecords,
                                          ![t].eligible = Eligible]
                /\ lastReturn' = "none"
                /\ UNCHANGED syncInProgress
    /\ UNCHANGED <<queue, logs, isOnline, lastSyncTime, timers, now, sent>>
    /\ IF Len(getPendingRecords(batchSize)) = 0
       THEN Returns(t, "queued")
       ELSE syncDataReturn' = "none"
    /\ UNCHANGED faults

\* sendToCloud returns { success: true } (l. 181, 197); performSync goes on
\* to markRecordsSynced (l. 141-143).
SendOk(t) ==
    /\ tasks[t].pc = "send"
    /\ tasks' = [tasks EXCEPT ![t].pc = "mark"]
    /\ sent' = Append(sent, [records |-> tasks[t].pendingRecords, ok |-> TRUE])
    /\ lastReturn' = "none"
    /\ UNCHANGED <<queue, logs, isOnline, syncInProgress, lastSyncTime, timers,
                   now>>
    /\ syncDataReturn' = "none"
    /\ UNCHANGED faults

\* sendToCloud's catch (l. 198-213): isOnline = false, a timer of 30 s is
\* started, { success: false } is returned; performSync goes on to
\* handleSyncFailure (l. 149-151).
SendFail(t, kind) ==
    /\ tasks[t].pc = "send"
    /\ isOnline' = FALSE
    /\ timers' = Append(timers, cooldown)
    /\ tasks' = [tasks EXCEPT ![t].pc = "fail", ![t].error = kind]
    /\ sent' = Append(sent, [records |-> tasks[t].pendingRecords, ok |-> FALSE])
    /\ lastReturn' = "none"
    /\ UNCHANGED <<queue, logs, syncInProgress, lastSyncTime, now>>
    /\ syncDataReturn' = "none"
    /\ UNCHANGED faults

\* The UPDATE of markRecordsSynced runs; logSync is called (l. 143-146).
MarkSynced(t) ==
    /\ tasks[t].pc = "mark"
    /\ markRecordsSynced(Ids(tasks[t].pendingRecords))
    /\ tasks' = [tasks EXCEPT ![t].pc = "log"]
    /\ lastReturn' = "none"
    /\ UNCHANGED <<logs, isOnline, syncInProgress, lastSyncTime, timers, now,
                   sent>>
    /\ syncDataReturn' = "none"
    /\ UNCHANGED faults

\* The UPDATE of handleSyncFailure runs; logSync is called (l. 151-152).
HandleFailure(t) ==
    /\ tasks[t].pc = "fail"
    /\ handleSyncFailure(Ids(tasks[t].pendingRecords))
    /\ tasks' = [tasks EXCEPT ![t].pc = "log"]
    /\ lastReturn' = "none"
    /\ UNCHANGED <<logs, isOnline, syncInProgress, lastSyncTime, timers, now,
                   sent>>
    /\ syncDataReturn' = "none"
    /\ UNCHANGED faults

\* Mutant of LogAndFinish: the failure branch logs the size of the batch.
LogAndFinishBatchSize(t) ==
    /\ tasks[t].pc = "log"
    /\ logSync(tasks[t].batchId, Len(tasks[t].pendingRecords),
               tasks[t].error = "none")
    /\ lastReturn' = IF tasks[t].error = "none" THEN "ok" ELSE "failed"
    /\ lastSyncTime' = now
    /\ syncInProgress' = FALSE
    /\ tasks' = [tasks EXCEPT ![t] = IdleTask]
    /\ UNCHANGED <<queue, isOnline, timers, now, sent>>
    /\ Returns(t, "queued")
    /\ UNCHANGED faults

\* The INSERT of logSync runs (l. 146 / l. 152); then lastSyncTime =
\* Date.now(), the result is returned and `finally` clears the flag
\* (l. 157-166).
LogAndFinish(t) ==
    /\ tasks[t].pc = "log"
    /\ IF tasks[t].error = "none"
       THEN /\ logSync(tasks[t].batchId, Len(tasks[t].pendingRecords), TRUE)
            /\ lastReturn' = "ok"
       ELSE /\ logSync(tasks[t].batchId, 0, FALSE)
            /\ lastReturn' = "failed"
    /\ lastSyncTime' = now
    /\ syncInProgress' = FALSE
    /\ tasks' = [tasks EXCEPT ![t] = IdleTask]
    /\ UNCHANGED <<queue, isOnline, timers, now, sent>>
    /\ Returns(t, "queued")
    /\ UNCHANGED faults

\* ------------------------------------------------------------ entry points

\* What a caller passes: an object with a type, an object without one (or
\* with an empty one), an object JSON.stringify cannot serialise (circular).
Inputs == {"typed", "untyped", "circular"}

\* JSON.stringify(data) returns (l. 89, l. 288); otherwise it throws.
Serializable(data) == data # "circular"

\* The targets of an enqueue: the ones that can be stored, the others.
Storable == {data \in Inputs : Serializable(data)}

Unstorable == Inputs \ Storable

\* Mutant of syncData: the immediate sync is started whatever isOnline is.
syncDataIgnoringBreaker(data) ==
    IF Serializable(data)
    THEN /\ Len(queue) < MaxRecords
         /\ addToSyncQueue
         /\ IF ~syncInProgress
            THEN /\ PerformSync("syncData")
                 /\ syncDataReturn' = "none"
            ELSE /\ lastReturn' = "none"
                 /\ syncDataReturn' = "queued"
                 /\ UNCHANGED <<syncInProgress, tasks>>
         /\ UNCHANGED <<logs, isOnline, lastSyncTime, timers, now, sent, faults>>
    ELSE /\ lastReturn' = "none"
         /\ syncDataReturn' = "error"
         /\ UNCHANGED <<queue, logs, isOnline, syncInProgress, lastSyncTime,
                        timers, now, tasks, sent, faults>>

\* syncData(data) (l. 70-85): the INSERT, then an immediate performSync if
\* online and no sync is running.  The INSERT takes data.type || 'activity'
\* (l. 93): a missing type is stored like a given one.  If JSON.stringify
\* throws, addToSyncQueue rejects before any statement is issued and the
\* catch returns { success: false }.
syncData(data) ==
    IF Serializable(data)
    THEN /\ Len(queue) < MaxRecords
         /\ addToSyncQueue
         /\ IF isOnline /\ ~syncInProgress
            THEN /\ PerformSync("syncData")
                 /\ syncDataReturn' = "none"
            ELSE /\ lastReturn' = "none"
                 /\ syncDataReturn' = "queued"
                 /\ UNCHANGED <<syncInProgress, tasks>>
         /\ UNCHANGED <<logs, isOnline, lastSyncTime, timers, now, sent, faults>>
    ELSE /\ lastReturn' = "none"
         /\ syncDataReturn' = "error"
         /\ UNCHANGED <<queue, logs, isOnline, syncInProgress, lastSyncTime,
                        timers, now, tasks, sent, faults>>

\* A call of syncData whose row is inserted.
SyncData == \E data \in Storable : syncData(data)

\* A call of syncData that throws before its INSERT.
SyncDataRejected == \E data \in Unstorable : syncData(data)

\* logEvent(eventData) (l. 278-306): the INSERT into sync_queue (the row of
\* user_activity is not modelled); no sync is started.
\* If JSON.stringify throws (l. 288) nothing is inserted.
logEvent(eventData) ==
    /\ IF Serializable(eventData)
       THEN /\ Len(queue) < MaxRecords
            /\ addToSyncQueue
       ELSE UNCHANGED queue
    /\ lastReturn' = "none"
    /\ syncDataReturn' = "none"
    /\ UNCHANGED <<logs, isOnline, syncInProgress, lastSyncTime, timers, now,
                   tasks, sent, faults>>

\* A call of logEvent whose row is inserted.
LogEvent == \E eventData \in Storable : logEvent(eventData)

\* A call of logEvent that throws before its INSERT.
LogEventRejected == \E eventData \in Unstorable : logEvent(eventData)

\* Mutant of PerformScheduledSync: the operands of the subtraction swapped.
PerformScheduledSyncSwapped ==
    /\ IF isOnline /\ lastSyncTime - now >= syncInterval
       THEN PerformSync("tick")
       ELSE /\ lastReturn' = "none"
            /\ UNCHANGED <<syncInProgress, tasks>>
    /\ UNCHANGED <<queue, logs, isOnline, lastSyncTime, timers, now, sent>>
    /\ syncDataReturn' = "none"
    /\ UNCHANGED faults

\* Mutant of PerformScheduledSync: the test of isOnline is missing.
PerformScheduledSyncIgnoringBreaker ==
    /\ IF now - lastSyncTime >= syncInterval
       THEN PerformSync("tick")
       ELSE /\ lastReturn' = "none"
            /\ UNCHANGED <<syncInProgress, tasks>>
    /\ UNCHANGED <<queue, logs, isOnline, lastSyncTime, timers, now, sent>>
    /\ syncDataReturn' = "none"
    /\ UNCHANGED faults

\* performScheduledSync() (l. 308-319), called by the cron job of
\* server.js every 2 s.
PerformScheduledSync ==
    /\ IF isOnline /\ now - lastSyncTime >= syncInterval
       THEN PerformSync("tick")
       ELSE /\ lastReturn' = "none"
            /\ UNCHANGED <<syncInProgress, tasks>>
    /\ UNCHANGED <<queue, logs, isOnline, lastSyncTime, timers, now, sent>>
    /\ syncDataReturn' = "none"
    /\ UNCHANGED faults

\* The callback of setTimeout in sendToCloud's catch (l. 202-204).
TimerFire ==
    /\ timers # <<>>
    /\ Head(timers) = 0
    /\ isOnline' = TRUE
    /\ timers' = Tail(timers)
    /\ lastReturn' = "none"
    /\ UNCHANGED <<queue, logs, syncInProgress, lastSyncTime, now, tasks, sent>>
    /\ syncDataReturn' = "none"
    /\ UNCHANGED faults

\* ------------------------------------------------------------------- time

\* One unit of time passes.  A timer that is due fires first.  The reading
\* gets a new number only if lastSyncTime holds the current one.
Advance ==
    /\ IF timers = <<>> THEN lastSyncTime = now ELSE Head(timers) > 0
    /\ now' = IF lastSyncTime = now THEN now + 1 ELSE now
    /\ timers' = [k \in 1..Len(timers) |-> timers[k] - 1]
    /\ lastReturn' = "none"
    /\ UNCHANGED <<queue, logs, isOnline, syncInProgress, lastSyncTime, tasks,
                   sent>>
    /\ syncDataReturn' = "none"
    /\ UNCHANGED faults

Next ==
    \/ SyncData
    \/ SyncDataRejected
    \/ LogEvent
    \/ LogEventRejected
    \/ PerformScheduledSync
    \/ \E t \in Tasks : Select(t)
    \/ \E t \in Tasks : SendOk(t)
    \/ \E t \in Tasks, kind \in ErrorKinds : SendFail(t, kind)
    \/ \E t \in Tasks : MarkSynced(t)
    \/ \E t \in Tasks : HandleFailure(t)
    \/ \E t \in Tasks : LogAndFinish(t)
    \/ TimerFire
    \/ Advance

Spec == Init /\ [][Next]_vars

\* The process starts on a database file that already holds rows
\* (new sqlite3.Database(syncDbPath), CREATE TABLE IF NOT EXISTS, l. 17-35):
\* Backlog pending rows, written by logEvent before the previous stop
\* (created_at 0) or since the start (created_at 1), none sent yet.  No
\* further row arrives.
InitBacklog ==
    /\ \E older \in 0..Backlog :
          queue = [i \in 1..Backlog |->
                     [sync_status |-> "pending", retry_count |-> 0,
                      created_at |-> IF i <= older THEN 0 ELSE 1]]
    /\ logs = <<>>
    /\ isOnline = TRUE
    /\ syncInProgress = FALSE
    /\ lastSyncTime = 0
    /\ timers = <<>>
    /\ now = 1
    /\ tasks = [t \in Tasks |-> IdleTask]
    /\ sent = <<>>
    /\ lastReturn = "none"
    /\ syncDataReturn = "none"
    /\ faults = 0

NextBacklog ==
    \/ PerformScheduledSync
    \/ \E t \in Tasks : Select(t)
    \/ \E t \in Tasks : SendOk(t)
    \/ \E t \in Tasks, kind \in ErrorKinds : SendFail(t, kind)
    \/ \E t \in Tasks : MarkSynced(t)
    \/ \E t \in Tasks : HandleFailure(t)
    \/ \E t \in Tasks : LogAndFinish(t)
    \/ TimerFire
    \/ Advance

SpecBacklog == InitBacklog /\ [][NextBacklog]_vars

\* ---------------------------------------------------------- process stop

\* The process stops at any moment and is started again: the fields are
\* those of the constructor (l. 62-68), the invocations and timers of the
\* old process are gone, the tables of sync.db are as the completed
\* statements left them (l. 17-35), and what the endpoint received stays
\* received.
Crash ==
    /\ faults < MaxCrashes
    /\ faults' = faults + 1
    /\ isOnline' = TRUE
    /\ syncInProgress' = FALSE
    /\ lastSyncTime' = 0
    /\ timers' = <<>>
    /\ tasks' = [t \in Tasks |-> IdleTask]
    /\ lastReturn' = "none"
    /\ syncDataReturn' = "none"
    /\ UNCHANGED <<queue, logs, sent, now>>

NextCrash ==
    \/ NextBacklog
    \/ Crash

SpecCrash == InitBacklog /\ [][NextCrash]_vars

\* ----------------------------------------------------------- store errors

\* An awaited statement of performSync's try block is answered with an
\* error (reject(err): getPendingRecords l. 225, markRecordsSynced l. 239,
\* handleSyncFailure l. 257, logSync l. 271).  Nothing is written; control
\* goes to the catch block, which calls logSync (l. 160-162).
StatementError(t) ==
    /\ faults < MaxFaults
    /\ tasks[t].pc \in {"select", "mark", "fail", "log"}
    /\ faults' = faults + 1
    /\ tasks' = [tasks EXCEPT ![t].pc = "catch"]
    /\ lastReturn' = "none"
    /\ syncDataReturn' = "none"
    /\ UNCHANGED <<queue, logs, isOnline, syncInProgress, lastSyncTime, timers,
                   now, sent>>

\* Mutant of CatchLogAndFinish: the flag is cleared at the end of the try
\* block only (no `finally`).
CatchLogAndFinishStale(t) ==
    /\ tasks[t].pc = "catch"
    /\ logSync(tasks[t].batchId, 0, FALSE)
    /\ lastReturn' = "error"
    /\ Returns(t, "queued")
    /\ tasks' = [tasks EXCEPT ![t] = IdleTask]
    /\ UNCHANGED <<queue, isOnline, syncInProgress, lastSyncTime, timers, now,
                   sent, faults>>

\* Mutant of CatchLogAndFinish: lastSyncTime is set in `finally`.
CatchLogAndFinishTimed(t) ==
    /\ tasks[t].pc = "catch"
    /\ logSync(tasks[t].batchId, 0, FALSE)
    /\ lastReturn' = "error"
    /\ Returns(t, "queued")
    /\ syncInProgress' = FALSE
    /\ lastSyncTime' = now
    /\ tasks' = [tasks EXCEPT ![t] = IdleTask]
    /\ UNCHANGED <<queue, isOnline, timers, now, sent, faults>>

\* The INSERT of the catch block's logSync runs (l. 162); performSync
\* returns { success: false } (l. 163) and `finally` clears the flag.
\* lastSyncTime is not set on this path.
CatchLogAndFinish(t) ==
    /\ tasks[t].pc = "catch"
    /\ logSync(tasks[t].batchId, 0, FALSE)
    /\ lastReturn' = "error"
    /\ Returns(t, "queued")
    /\ syncInProgress' = FALSE
    /\ tasks' = [tasks EXCEPT ![t] = IdleTask]
    /\ UNCHANGED <<queue, isOnline, lastSyncTime, timers, now, sent, faults>>

\* The INSERT of the catch block's logSync is answered with an error too:
\* the rejection leaves performSync (after `finally`), and the caller's
\* catch takes it: syncData returns { success: false } (l. 81-83), the cron
\* job logs it (server.js l. 162-164).
CatchLogError(t) ==
    /\ faults < MaxFaults
    /\ tasks[t].pc = "catch"
    /\ faults' = faults + 1
    /\ lastReturn' = "threw"
    /\ Returns(t, "error")
    /\ syncInProgress' = FALSE
    /\ tasks' = [tasks EXCEPT ![t] = IdleTask]
    /\ UNCHANGED <<queue, logs, isOnline, lastSyncTime, timers, now, sent>>

\* The INSERT of addToSyncQueue is answered with an error (l. 95-96) in a
\* call of syncData: no row is written, syncData returns
\* { success: false } (l. 81-83).
SyncDataInsertError ==
    /\ faults < MaxFaults
    /\ faults' = faults + 1
    /\ lastReturn' = "none"
    /\ syncDataReturn' = "error"
    /\ UNCHANGED <<queue, logs, isOnline, syncInProgress, lastSyncTime, timers,
                   now, tasks, sent>>

NextFault ==
    \/ Next
    \/ \E t \in Tasks : StatementError(t)
    \/ \E t \in Tasks : CatchLogAndFinish(t)
    \/ \E t \in Tasks : CatchLogError(t)
    \/ SyncDataInsertError

SpecFault == Init /\ [][NextFault]_vars

\* The same errors in a process that starts on a table holding rows and
\* receives no further row.
NextBacklogFault ==
    \/ NextBacklog
    \/ \E t \in Tasks : StatementError(t)
    \/ \E t \in Tasks : CatchLogAndFinish(t)
    \/ \E t \in Tasks : CatchLogError(t)

SpecBacklogFault == InitBacklog /\ [][NextBacklogFault]_vars

\* The same errors in a process that starts on an empty table and receives
\* up to MaxEnqueued rows through syncData.
NextEnqueueFault ==
    \/ SyncData /\ Len(queue) < MaxEnqueued
    \/ SyncDataInsertError
    \/ NextBacklogFault

SpecEnqueueFault == Init /\ [][NextEnqueueFault]_vars

\* What the scheduling guarantees: the cron job keeps calling
\* performScheduledSync, time passes, a due timer fires, a database
\* statement completes, and a call of sendToCloud returns (axios is given
\* timeout: 5000; the demo transport waits at most 300 ms).
Fairness ==
    /\ WF_vars(PerformScheduledSync)
    /\ WF_vars(Advance)
    /\ WF_vars(TimerFire)
    /\ \A t \in Tasks :
          /\ WF_vars(Select(t))
          /\ WF_vars(SendOk(t) \/ \E kind \in ErrorKinds : SendFail(t, kind))
          /\ WF_vars(MarkSynced(t))
          /\ WF_vars(HandleFailure(t))
          /\ WF_vars(LogAndFinish(t))

LiveSpec == Spec /\ Fairness

LiveSpecCrash == SpecCrash /\ Fairness

\* With store errors: the statement of the catch block is answered too,
\* one way or the other.
FairnessFault ==
    /\ Fairness
    /\ \A t \in Tasks : WF_vars(CatchLogAndFinish(t) \/ CatchLogError(t))

LiveSpecBacklogFault == SpecBacklogFault /\ FairnessFault

\* ================================================================ claims

ActiveTasks == {t \in Tasks : tasks[t].pc # "idle"}

\* What a refused request must leave alone: the store, the log, the
\* transport and the dispatch in flight.
DispatchState == <<queue, logs, sent, tasks, syncInProgress, isOnline,
                   lastSyncTime, timers>>

\* C1: at most one dispatch is in flight, and syncInProgress is true exactly
\* while one is.  A scheduled tick that reaches performSync while
\* syncInProgress is true gets 'already in progress' and changes nothing; an
\* enqueue through syncData while syncInProgress is true only inserts its
\* row; and 'already in progress' is returned in no other situation.
C1_OneDispatchInFlight ==
    /\ [](Cardinality(ActiveTasks) <= 1 /\ (syncInProgress <=> ActiveTasks # {}))
    /\ [][(/\ syncInProgress
           /\ isOnline /\ now - lastSyncTime >= syncInterval
           /\ PerformScheduledSync)
          => lastReturn' = "already" /\ UNCHANGED DispatchState]_vars
    /\ [][(syncInProgress /\ SyncData)
          => /\ lastReturn' # "already"
             /\ UNCHANGED <<logs, sent, tasks, syncInProgress>>]_vars
    /\ [][lastReturn' = "already"
          => syncInProgress /\ UNCHANGED DispatchState]_vars

\* C1 witness: a request was refused while a batch is at the transport.
C1_Witness ==
    /\ lastReturn = "already"
    /\ \E t \in Tasks : tasks[t].pc = "send"

\* No call of sendToCloud has failed so far.
EverySendSucceeded == \A k \in 1..Len(sent) : sent[k].ok

Synced(i) == Len(queue) >= i /\ queue[i].sync_status = "synced"

\* C2: if every send succeeds, then under the scheduling of Fairness every
\* row ever inserted into sync_queue, by syncData or by logEvent, is
\* eventually marked synced.
C2_EventuallySynced ==
    ([]EverySendSucceeded)
        => \A i \in 1..MaxRecords : (Len(queue) >= i) ~> Synced(i)

\* C2 witness: rows were inserted, two batches were sent, none failed, and
\* every row is synced.
C2_Witness ==
    /\ Len(queue) >= 2
    /\ Len(sent) >= 2
    /\ EverySendSucceeded
    /\ \A i \in 1..Len(queue) : Synced(i)

\* C3: a row whose batch failed stays eligible while its retry_count is
\* below retryAttempts, so every row is eventually synced unless it has
\* used up its retries.
C3_RetriedUntilSynced ==
    /\ [](\A i \in 1..Len(queue) :
             (queue[i].sync_status = "failed"
                 /\ queue[i].retry_count < retryAttempts) => i \in Eligible)
    /\ \A i \in 1..MaxRecords :
          (Len(queue) >= i)
              ~> (Synced(i) \/ (Len(queue) >= i
                                  /\ queue[i].retry_count >= retryAttempts))

\* C5: a row that is synced is never changed again, and no batch read from
\* the table afterwards contains it.
C5_SyncedIsFinal ==
    [][\A i \in 1..Len(queue) :
          queue[i].sync_status = "synced"
             => /\ queue'[i] = queue[i]
                /\ \A t \in Tasks :
                      tasks'[t].pendingRecords # tasks[t].pendingRecords
                         => i \notin Ids(tasks'[t].pendingRecords)]_vars

\* C5 witness: a batch is at the transport while an earlier row is synced.
C5_Witness ==
    /\ \E i \in 1..Len(queue) : Synced(i)
    /\ \E t \in Tasks : tasks[t].pc = "send"

\* The failed sends that included row i, and whether the UPDATE of
\* handleSyncFailure for the latest of them is still to run.
FailedSends(i) ==
    Cardinality({k \in 1..Len(sent) :
                    ~sent[k].ok /\ i \in Ids(sent[k].records)})

AwaitingFailureUpdate(i) ==
    \E t \in Tasks : tasks[t].pc = "fail" /\ i \in Ids(tasks[t].pendingRecords)

\* C6: the retry_count of a row is the number of failed sends that included
\* it (one per failed attempt, whatever the size of the batch), and after a
\* failed send every row of the batch has status failed.
C6_OneRetryPerFailedSend ==
    \A i \in 1..Len(queue) :
        IF AwaitingFailureUpdate(i)
        THEN queue[i].retry_count = FailedSends(i) - 1
        ELSE /\ queue[i].retry_count = FailedSends(i)
             /\ FailedSends(i) > 0 => queue[i].sync_status = "failed"

\* C6 witness: a send of two rows failed and its update has run.
C6_Witness ==
    \E k \in 1..Len(sent) :
        /\ ~sent[k].ok
        /\ Len(sent[k].records) = 2
        /\ \A i \in Ids(sent[k].records) :
              queue[i].sync_status = "failed" /\ queue[i].retry_count = 1

\* C7: the rows of an accepted batch are synced all at once: in no state
\* are some of them synced and others not, and once the dispatcher is idle
\* again all of them are synced.
C7_BatchSyncedAtOnce ==
    \A k \in 1..Len(sent) :
        sent[k].ok =>
            /\ \/ \A i \in Ids(sent[k].records) : Synced(i)
               \/ \A i \in Ids(sent[k].records) : ~Synced(i)
            /\ ActiveTasks = {} => \A i \in Ids(sent[k].records) : Synced(i)

\* C7 witness: a batch of two rows was accepted, the dispatcher is idle and
\* both rows are synced.
C7_Witness ==
    /\ ActiveTasks = {}
    /\ \E k \in 1..Len(sent) :
          /\ sent[k].ok
          /\ Len(sent[k].records) = 2
          /\ \A i \in Ids(sent[k].records) : Synced(i)

\* The sizes of the batches sent so far, and the sizes n rows make when they
\* are sent batchSize at a time.
BatchSizes == [k \in 1..Len(sent) |-> Len(sent[k].records)]

ExpectedSizes(n) ==
    [k \in 1..((n + batchSize - 1) \div batchSize) |->
        Min(batchSize, n - (k - 1) * batchSize)]

AllSynced == \A i \in 1..Len(queue) : Synced(i)

\* C8: no batch given to sendToCloud holds more than batchSize rows; and
\* when a backlog of pending rows has been sent with no send failing, the
\* batches were full ones followed by the rest: for 5 rows and batchSize 2,
\* sizes 2, 2, 1.
C8_BatchSizeBound ==
    /\ \A k \in 1..Len(sent) : Len(sent[k].records) <= batchSize
    /\ \A t \in Tasks : Len(tasks[t].pendingRecords) <= batchSize
    /\ (EverySendSucceeded /\ AllSynced)
          => BatchSizes = ExpectedSizes(Len(queue))
    /\ (EverySendSucceeded /\ AllSynced /\ Len(queue) = 5 /\ batchSize = 2)
          => BatchSizes = <<2, 2, 1>>

\* C8 witness: 5 rows, every send accepted, all synced in batches of 2, 2, 1.
C8_Witness ==
    /\ Len(queue) = 5
    /\ batchSize = 2
    /\ EverySendSucceeded
    /\ AllSynced
    /\ BatchSizes = <<2, 2, 1>>

Retryable(i) ==
    /\ queue[i].sync_status = "failed"
    /\ queue[i].retry_count < retryAttempts

\* C10: a failed send leaves isOnline false at once; isOnline stays false
\* while the cooldown timer runs; it becomes true again only by the timer,
\* with no dispatch and no caller involved; and a tick after that hands the
\* waiting rows to sendToCloud: its dispatch finds nothing to send only when
\* neither a pending row nor a failed row with retries left is in the table.
C10_BreakerRoundTrip ==
    /\ [][(\E t \in Tasks, kind \in ErrorKinds : SendFail(t, kind))
            => ~isOnline' /\ timers' # <<>>]_vars
    /\ []((timers # <<>> /\ Head(timers) > 0) => ~isOnline)
    /\ [][(~isOnline /\ isOnline')
            => /\ timers # <<>> /\ Head(timers) = 0
               /\ UNCHANGED <<queue, logs, sent, tasks, syncInProgress,
                              lastSyncTime>>]_vars
    /\ [][(isOnline /\ ~syncInProgress /\ now - lastSyncTime >= syncInterval
              /\ PerformScheduledSync)
            => \E t \in Tasks : tasks'[t].pc = "select"
                                   /\ tasks'[t].caller = "tick"]_vars
    /\ [][(\E t \in Tasks : /\ tasks[t].pc = "select"
                             /\ tasks[t].caller = "tick"
                             /\ Select(t)
                             /\ lastReturn' = "nodata")
            => \A i \in 1..Len(queue) :
                  queue[i].sync_status # "pending" /\ ~Retryable(i)]_vars

\* C11: when the endpoint answers a batch with an HTTP error, the rows of
\* the batch are marked failed, and the breaker is not touched: isOnline is
\* still true and no cooldown timer is pending while that dispatch finishes.
C11_RejectionKeepsOnline ==
    \A t \in Tasks :
        (tasks[t].pc \in {"fail", "log"} /\ tasks[t].error = "http")
            => /\ isOnline
               /\ timers = <<>>
               /\ tasks[t].pc = "log"
                     => \A i \in Ids(tasks[t].pendingRecords) :
                           queue[i].sync_status = "failed"

\* C12: a dispatch reads the table and calls sendToCloud only while
\* isOnline is true; a tick while isOnline is false changes no row, no log
\* entry, not lastSyncTime, and starts nothing; syncData while isOnline is
\* false only inserts its row.
C12_OfflineSkips ==
    /\ [](\A t \in Tasks : tasks[t].pc \in {"select", "send"} => isOnline)
    /\ [][(\E t \in Tasks : tasks'[t].pc \in {"select", "send"}
                              /\ tasks'[t].pc # tasks[t].pc)
            => isOnline]_vars
    /\ [][Len(sent') > Len(sent) => isOnline]_vars
    /\ [][(~isOnline /\ PerformScheduledSync)
            => UNCHANGED <<queue, logs, lastSyncTime, tasks, sent,
                           syncInProgress, isOnline, timers>>]_vars
    /\ [][(~isOnline /\ SyncData)
            => /\ queue' = Append(queue, NewRecord)
               /\ UNCHANGED <<logs, lastSyncTime, tasks, sent, syncInProgress,
                              isOnline, timers>>]_vars

\* C12 witness: the breaker is open, time has passed since it opened, a
\* pending row is waiting in the table and no dispatch is in flight.
C12_Witness ==
    /\ ~isOnline
    /\ timers # <<>> /\ Head(timers) < cooldown
    /\ Eligible # {}
    /\ ActiveTasks = {}
    /\ ~syncInProgress

\* What a dispatch may change apart from its own position and the flag.
Outcome == <<queue, logs, sent, isOnline, lastSyncTime, timers>>

\* C14: a dispatch whose selection is empty does nothing: neither the step
\* that starts a dispatch nor the step in which it finds no row changes a
\* row, the log, the sends, isOnline, lastSyncTime or a timer; it returns
\* 'no data' only if no row was eligible, and leaves no dispatch in flight
\* and the flag cleared, so that it can be repeated with the same result.
C14_EmptyDispatchIsNoOp ==
    /\ [][(~syncInProgress /\ syncInProgress' /\ PerformScheduledSync)
            => UNCHANGED Outcome]_vars
    /\ [][lastReturn' = "nodata"
            => /\ Eligible = {}
               /\ \E t \in Tasks : tasks[t].pc = "select"
               /\ UNCHANGED Outcome
               /\ ~syncInProgress'
               /\ ActiveTasks' = {}]_vars
    /\ [][(\E t \in Tasks : tasks[t].pc = "select" /\ Select(t)
                              /\ Eligible = {})
            => lastReturn' = "nodata"]_vars

\* C14 witness: a dispatch has just found nothing to send in a table that
\* holds rows, after an earlier dispatch wrote a log row.
C14_Witness ==
    /\ lastReturn = "nodata"
    /\ Len(queue) >= 1
    /\ Len(logs) >= 1
    /\ ~syncInProgress

\* The sends that contained row i, and the rows the endpoint has accepted.
SendsOf(i) == {k \in 1..Len(sent) : i \in Ids(sent[k].records)}

Accepted == {i \in 1..Len(queue) : \E k \in SendsOf(i) : sent[k].ok}

\* Rows whose last send was accepted, that are not marked synced, and that
\* no invocation of performSync holds any more: the process stopped
\* between the endpoint's answer and the UPDATE of markRecordsSynced.
Orphans ==
    {i \in 1..Len(queue) :
        /\ ~Synced(i)
        /\ \E k \in SendsOf(i) : sent[k].ok /\ \A m \in SendsOf(i) : m <= k
        /\ \A t \in Tasks : i \notin Ids(tasks[t].pendingRecords)}

\* C15: after the process stopped between an accepted send and the marking
\* of its rows, the rows are still there with status pending and eligible;
\* no row is marked synced that the endpoint did not accept; the next
\* selection contains them, so they are sent again; and under the cron
\* schedule that selection does happen.
C15_ResentAfterRestart ==
    /\ [](\A i \in Orphans : queue[i].sync_status = "pending" /\ i \in Eligible)
    /\ [](\A i \in 1..Len(queue) : Synced(i) => i \in Accepted)
    /\ [][Len(queue') >= Len(queue)]_vars
    /\ [][\A t \in Tasks :
            (tasks[t].pc = "select" /\ tasks'[t].pc = "send")
                => Orphans \subseteq Ids(tasks'[t].pendingRecords)]_vars
    /\ [][lastReturn' = "nodata" => Orphans = {}]_vars
    /\ \A i \in 1..Backlog : (i \in Orphans) ~> (i \notin Orphans)

\* C15 witness: the process was restarted, and a row that the endpoint had
\* accepted before was accepted a second time and is now synced.
C15_Witness ==
    /\ faults >= 1
    /\ \E i \in 1..Len(queue) :
          /\ Synced(i)
          /\ Cardinality({k \in SendsOf(i) : sent[k].ok}) = 2

\* Rows inserted since the dispatch in slot t read the table.
InsertedSince(t) ==
    {i \in 1..Len(queue) : \A j \in tasks[t].eligible : j < i}
        \ tasks[t].eligible

\* C16: every enqueue made while a dispatch is running, through syncData or
\* logEvent, adds exactly one row, pending with retry_count 0 and with a new
\* id, changes no other row, and starts no dispatch: the dispatch in flight
\* stays the only one.
C16_EnqueueDuringDispatch ==
    /\ [](Cardinality(ActiveTasks) <= 1)
    /\ [][(syncInProgress /\ (SyncData \/ LogEvent))
            => /\ Len(queue') = Len(queue) + 1
               /\ \A i \in 1..Len(queue) : queue'[i] = queue[i]
               /\ queue'[Len(queue')].sync_status = "pending"
               /\ queue'[Len(queue')].retry_count = 0
               /\ UNCHANGED <<tasks, syncInProgress, sent, logs>>]_vars

\* C16 witness: a batch is at the transport and two rows inserted since it
\* was selected are pending in the table, with that dispatch the only one.
C16_Witness ==
    \E t \in Tasks :
        /\ tasks[t].pc = "send"
        /\ ActiveTasks = {t}
        /\ Cardinality({i \in InsertedSince(t) :
                           queue[i].sync_status = "pending"}) >= 2

\* C17: a call of syncData whose row was inserted returns
\* { success: true }, whatever became of the dispatch it started and
\* awaited: accepted, failed at the transport, or stopped by an error of a
\* table; { success: false } is returned only by a call that inserted
\* nothing and awaited no dispatch.
C17_EnqueueResultIndependent ==
    /\ [][(\E t \in Tasks : /\ tasks[t].caller = "syncData"
                             /\ tasks'[t].pc = "idle")
            => syncDataReturn' = "queued"]_vars
    /\ [][(SyncData /\ ~(isOnline /\ ~syncInProgress))
            => syncDataReturn' = "queued"]_vars
    /\ [][syncDataReturn' = "error"
            => UNCHANGED <<queue, tasks>>]_vars

\* C18: syncData does not wait for the dispatch it starts: the step in
\* which its row is inserted and the dispatch is requested is the step in
\* which it returns { success: true }, so it has returned while that
\* dispatch is still at its selection or at the transport.
C18_EnqueueDoesNotWait ==
    /\ [][SyncData => syncDataReturn' = "queued"]_vars
    /\ [][syncDataReturn' # "none" => Len(queue') = Len(queue) + 1]_vars

\* Input without a usable kind, or that cannot be serialised.
Malformed == {"untyped", "circular"}

\* C19: a call of syncData or logEvent with malformed input writes nothing,
\* to sync_queue or to sync_logs, and starts nothing; syncData reports the
\* failure.
C19_MalformedRejected ==
    [][\A data \in Malformed :
          /\ (syncData(data) \/ logEvent(data))
                => UNCHANGED <<queue, logs, tasks, syncInProgress, sent>>
          /\ syncData(data) => syncDataReturn' = "error"]_vars

\* The dispatch in slot t settles in this step, having selected rows.
SettlesWithBatch(t) ==
    /\ tasks[t].pc # "idle"
    /\ tasks[t].pendingRecords # <<>>
    /\ tasks'[t].pc = "idle"

\* C20: a dispatch that selected rows appends exactly one row to sync_logs,
\* whether the send was accepted, failed, or the attempt was stopped by an
\* exception: the row is appended in the step in which the dispatch
\* settles, sync_logs changes in no other step of it, and rows already in
\* sync_logs stay as they are.
C20_OneLogRowPerAttempt ==
    /\ [][\A t \in Tasks :
            SettlesWithBatch(t) => Len(logs') = Len(logs) + 1]_vars
    /\ [][logs' # logs
            => \E t \in Tasks : tasks[t].pc # "idle" /\ tasks'[t].pc = "idle"]_vars
    /\ [][/\ Len(logs') >= Len(logs)
          /\ \A k \in 1..Len(logs) : logs'[k] = logs[k]]_vars

\* The dispatch in slot t holds row i in its batch.
Holds(t, i) == i \in Ids(tasks[t].pendingRecords)

\* The dispatch in slot t ran into an error: its send failed, or a
\* statement of it was rejected.
HitError(t) == tasks[t].error # "none" \/ tasks[t].pc = "catch"

\* C21: an error of a dispatch attempt (transport, table read or write, log
\* write) is recorded: the attempt ends by appending a row with success = 0
\* to sync_logs; and its rows are tried again: a row that is not synced,
\* has retries left and is in no running dispatch is eligible for the next
\* selection.
C21_ErrorsLoggedAndRetried ==
    /\ [][\A t \in Tasks :
            (HitError(t) /\ tasks'[t].pc = "idle")
                => /\ Len(logs') = Len(logs) + 1
                   /\ ~logs'[Len(logs')].success]_vars
    /\ [](\A i \in 1..Len(queue) :
             (/\ ~Synced(i)
              /\ queue[i].retry_count < retryAttempts
              /\ \A t \in Tasks : ~Holds(t, i)) => i \in Eligible)

\* C22: syncInProgress is true exactly while a dispatch is running, and
\* every dispatch ends: whenever the flag is true it becomes false again,
\* whatever the dispatch meets (accepted send, failed send, empty
\* selection, rejected statement), and it is false whenever no dispatch is
\* running, so that no tick finds a stale flag.
C22_FlagAlwaysCleared ==
    /\ [](syncInProgress <=> ActiveTasks # {})
    /\ syncInProgress ~> ~syncInProgress
    /\ [][\A t \in Tasks :
            (tasks[t].pc # "idle" /\ tasks'[t].pc = "idle")
                => ~syncInProgress']_vars

\* C22 witness: a dispatch has just ended with its rejection leaving
\* performSync, after an earlier one ended through the catch block, and
\* the flag is clear with no dispatch running.
C22_Witness ==
    /\ lastReturn = "threw"
    /\ Len(logs) >= 1 /\ ~logs[Len(logs)].success
    /\ ~syncInProgress
    /\ ActiveTasks = {}

\* C23: batchId is unique per dispatch attempt: no two rows of sync_logs
\* carry the same batch_id, and a running dispatch carries a batchId that no
\* row of sync_logs has, also when attempts start within one reading of the
\* clock.
C23_BatchIdUnique ==
    /\ \A j, k \in 1..Len(logs) :
          j # k => logs[j].batch_id # logs[k].batch_id
    /\ \A t \in ActiveTasks : \A k \in 1..Len(logs) :
          logs[k].batch_id # tasks[t].batchId

\* This step is a tick that starts a dispatch.
TickStartsDispatch ==
    /\ PerformScheduledSync
    /\ \E t \in Tasks : tasks[t].pc = "idle" /\ tasks'[t].pc = "select"

\* C24: a tick starts a dispatch only if more than syncInterval has passed
\* since the last dispatch that was attempted, accepted or not: every
\* dispatch that selected a batch leaves its time in lastSyncTime when it
\* ends, a tick starts one only if now - lastSyncTime exceeds syncInterval,
\* and a tick while a dispatch is running starts nothing.  (lastSyncTime
\* is 0 until a dispatch has set it: a tick before that is not limited.)
C24_TickRateLimited ==
    /\ [][(TickStartsDispatch /\ lastSyncTime > 0)
            => now - lastSyncTime > syncInterval]_vars
    /\ [][\A t \in Tasks : SettlesWithBatch(t) => lastSyncTime' = now]_vars
    /\ [][(syncInProgress /\ PerformScheduledSync)
            => UNCHANGED <<tasks, syncInProgress>>]_vars

\* C25: each successful enqueue (syncData or logEvent) inserts exactly one
\* record, with status pending and retry_count 0, whose id (its position in
\* the table) is greater than the id of every record inserted before it, and
\* leaves every existing record as it was.
C25_EnqueueInsertsOnePending ==
    [][(SyncData \/ LogEvent) =>
          /\ Len(queue') = Len(queue) + 1
          /\ \A i \in 1..Len(queue) : queue'[i] = queue[i]
          /\ queue'[Len(queue')].sync_status = "pending"
          /\ queue'[Len(queue')].retry_count = 0]_vars

\* A record was enqueued after an earlier one had failed.
C25_Witness ==
    /\ Len(queue) >= 2
    /\ queue[1].sync_status = "failed"
    /\ queue[Len(queue)].sync_status = "pending"
    /\ queue[Len(queue)].created_at > queue[1].created_at

\* The dispatch in slot t settles in this step, having selected rows, and
\* appends a row to sync_logs.
LogsItsBatch(t) == SettlesWithBatch(t) /\ Len(logs') = Len(logs) + 1

\* The send of the dispatch that is settling: the last batch handed to the
\* transport (one dispatch holds a batch at a time).
LastSend == sent[Len(sent)]

\* C26 as stated: the record count of a row of sync_logs is the number of
\* records in the batch of its dispatch attempt, for accepted and for
\* failed sends alike, and its success flag is the outcome of the send.
C26_LogRowMatchesBatch ==
    [][\A t \in Tasks : LogsItsBatch(t) =>
          /\ logs'[Len(logs')].records_synced = Len(tasks[t].pendingRecords)
          /\ logs'[Len(logs')].success = LastSend.ok]_vars

\* C26 amended: the row carries the batchId of the attempt; its success
\* flag is true exactly when the send was accepted and the attempt was not
\* aborted by an exception; its record count is the size of the batch in
\* that case and 0 in every other case.
C26_LogRowMatchesOutcome ==
    [][\A t \in Tasks : LogsItsBatch(t) =>
          LET row == logs'[Len(logs')]
              completed == LastSend.ok /\ tasks[t].pc # "catch"
          IN  /\ LastSend.records = tasks[t].pendingRecords
              /\ row.batch_id = tasks[t].batchId
              /\ row.success = completed
              /\ row.records_synced =
                    IF completed THEN Len(tasks[t].pendingRecords) ELSE 0]_vars

\* sync_logs holds the row of a full batch that was synced and the row of
\* an attempt whose send failed.
C26_Witness ==
    /\ \E k \in 1..Len(logs) :
          logs[k].success /\ logs[k].records_synced = batchSize
    /\ \E k \in 1..Len(logs) :
          ~logs[k].success /\ logs[k].records_synced = 0
    /\ \E k \in 1..Len(sent) : ~sent[k].ok /\ Len(sent[k].records) = batchSize

\* The batches handed to the transport that contained row i.
SendsWith(i) == {k \in 1..Len(sent) : i \in Ids(sent[k].records)}

\* C27: in every reachable state each record has retry_count 0 or 1, has
\* status failed exactly when retry_count is 1, and has retry_count 0 when
\* its status is pending or synced; and (no restart, no store error) no
\* record is in more than one batch handed to the transport.
C27_AtMostOneAttempt ==
    \A i \in 1..Len(queue) :
        /\ queue[i].retry_count \in {0, 1}
        /\ queue[i].sync_status = "failed" <=> queue[i].retry_count = 1
        /\ queue[i].sync_status \in {"pending", "synced"}
              => queue[i].retry_count = 0
        /\ Cardinality(SendsWith(i)) <= 1

\* A batch failed, its rows are failed with retry_count 1, and a later
\* batch has been handed to the transport.
C27_Witness ==
    \E k, m \in 1..Len(sent) :
        /\ k < m
        /\ ~sent[k].ok
        /\ \A i \in Ids(sent[k].records) :
              queue[i].sync_status = "failed" /\ queue[i].retry_count = 1

\* C28: the outcome of a dispatch changes only the rows of its batch: the
\* status update leaves every other row as it is; a row inserted after the
\* selection is pending with retry_count 0 when the dispatch ends, whether
\* the send was accepted or failed; and under the scheduling of Fairness a
\* pending row is handed to the transport by a later dispatch.
C28_OutcomeTouchesOnlyBatch ==
    /\ [][\A t \in Tasks :
            (MarkSynced(t) \/ HandleFailure(t))
               => \A i \in 1..Len(queue) \ Ids(tasks[t].pendingRecords) :
                     queue'[i] = queue[i]]_vars
    /\ [][\A t \in Tasks :
            SettlesWithBatch(t)
               => \A i \in InsertedSince(t) :
                     /\ queue'[i].sync_status = "pending"
                     /\ queue'[i].retry_count = 0]_vars
    /\ \A i \in 1..MaxRecords :
          (Len(queue) >= i /\ queue[i].sync_status = "pending")
              ~> (SendsWith(i) # {})

\* A dispatch whose send failed is about to end, and a row inserted since
\* its selection is in the table.
C28_Witness ==
    \E t \in Tasks :
        /\ tasks[t].pc = "log"
        /\ tasks[t].error # "none"
        /\ \E i \in InsertedSince(t) : queue[i].sync_status = "pending"

\* C29: at most one cooldown timer is pending: a send fails only while
\* isOnline is true and no timer is pending, and starts the one timer with
\* the full cooldown; isOnline is false exactly while that timer is
\* pending; the timer only counts down with time; and isOnline becomes true
\* again only when that timer has run its full cooldown.
C29_OneCooldownTimer ==
    /\ [](Len(timers) <= 1)
    /\ [](~isOnline <=> timers # <<>>)
    /\ [][(\E t \in Tasks, kind \in ErrorKinds : SendFail(t, kind))
            => /\ isOnline /\ timers = <<>>
               /\ ~isOnline' /\ timers' = <<cooldown>>]_vars
    /\ [][(timers # <<>> /\ timers' # <<>>)
            => Head(timers') \in {Head(timers), Head(timers) - 1}]_vars
    /\ [][(~isOnline /\ isOnline') => timers = <<0>> /\ timers' = <<>>]_vars

\* The breaker is open for the second time: two sends have failed and one
\* timer is pending.
C29_Witness ==
    /\ ~isOnline
    /\ Len(timers) = 1
    /\ Cardinality({k \in 1..Len(sent) : ~sent[k].ok}) >= 2

\* C30: lastSyncTime never decreases and changes only in the step that ends
\* a dispatch whose send returned and whose status update and log row are
\* written, where it takes the current time; it is left as it is by an
\* enqueue, by a dispatch that selects nothing, by a request refused as
\* already in progress, by a tick while offline, and by an attempt aborted
\* by an exception.
C30_LastSyncTimeFrame ==
    /\ [][lastSyncTime' >= lastSyncTime]_vars
    /\ [][lastSyncTime' # lastSyncTime
            => /\ lastSyncTime' = now
               /\ \E t \in Tasks : /\ tasks[t].pc = "log"
                                    /\ tasks'[t].pc = "idle"
                                    /\ tasks[t].pendingRecords = LastSend.records
                                    /\ Len(logs') = Len(logs) + 1]_vars
    /\ [][(\/ Len(queue') > Len(queue)
           \/ lastReturn' \in {"nodata", "already", "error", "threw"}
           \/ ~isOnline /\ PerformScheduledSync
           \/ \E t \in Tasks : tasks[t].pc = "catch" /\ tasks'[t].pc = "idle")
            => UNCHANGED lastSyncTime]_vars

\* An attempt aborted by an exception has ended, later than the last
\* completed dispatch, and lastSyncTime still holds the time of that one.
C30_Witness ==
    /\ lastReturn = "error"
    /\ 0 < lastSyncTime /\ lastSyncTime < now
    /\ Len(logs) >= 2
    /\ ~logs[Len(logs)].success /\ logs[Len(logs)].batch_id > lastSyncTime

====
